---------------------------- MODULE Spec2Model ----------------------------
(***************************************************************************)
(* Byte-level BPE tokenizer of hindi_bpe_tokenizer.py (HindiBPETokenizer)  *)
(* and the calls train_bpe_simple.py makes on it.                          *)
(*                                                                         *)
(* Text is a sequence of Unicode code points, a byte string a sequence of  *)
(* integers 0..255, a token list a sequence of integers.  A Python dict is *)
(* a sequence of entries in insertion order (dicts iterate in insertion    *)
(* order, which max() and min() over a dict observe).                      *)
(***************************************************************************)
EXTENDS Integers, Sequences, FiniteSets, TLC

(***************************************************************************)
(* Bounds of the model.                                                    *)
(***************************************************************************)
MaxCorpusLen == 3      \* code points of a training corpus drawn from Alphabet
MaxTextLen == 2        \* code points of a text given to encode / stats
MaxDecodeLen == 2      \* length of an ID list given to decode
MaxMerges == 3         \* vocab_size ranges up to 256 + MaxMerges
MaxTrains == 2         \* train() calls on the one instance
MaxIdsLen == 4         \* length of the list given to merge() on its own

(***************************************************************************)
(* Program constants.                                                      *)
(***************************************************************************)
BaseVocab == 256       \* range(256), and the 256 of "vocab_size < 256"
Inf == 1000000         \* float("inf"): above every token ID of the model
Replacement == 65533   \* U+FFFD, what errors="replace" substitutes

None == "None"

\* A value that may be absent: Nothing, or Some(x).
Nothing == <<>>
Some(x) == <<x>>

(***************************************************************************)
(* Sequence helpers.                                                       *)
(***************************************************************************)
RECURSIVE Flatten(_)
Flatten(ss) == IF ss = <<>> THEN <<>> ELSE Head(ss) \o Flatten(Tail(ss))

Range(s) == {s[k] : k \in 1..Len(s)}

SeqsUpTo(S, n) == UNION {[1..k -> S] : k \in 0..n}

(***************************************************************************)
(* str.encode("utf-8") of one code point and of a string (lines 88, 157,   *)
(* 209).  Lone surrogates, which raise, are not text of the model.         *)
(***************************************************************************)
Utf8Char(cp) ==
    IF cp < 128 THEN <<cp>>
    ELSE IF cp < 2048 THEN <<192 + (cp \div 64), 128 + (cp % 64)>>
    ELSE IF cp < 65536
         THEN <<224 + (cp \div 4096), 128 + ((cp \div 64) % 64), 128 + (cp % 64)>>
    ELSE <<240 + (cp \div 262144), 128 + ((cp \div 4096) % 64),
           128 + ((cp \div 64) % 64), 128 + (cp % 64)>>

Utf8Encode(text) == Flatten([k \in 1..Len(text) |-> Utf8Char(text[k])])

(***************************************************************************)
(* bytes.decode("utf-8", errors="replace") (line 184): each maximal        *)
(* ill-formed prefix becomes one U+FFFD and decoding goes on after it.     *)
(***************************************************************************)
IsCont(b) == b \in 128..191

\* The code point decoded at position i of bs and the bytes it consumes.
Utf8At(bs, i) ==
    LET b0 == bs[i]
        n == Len(bs)
        has(k) == i + k <= n
        c(k) == bs[i + k] - 128
        bad(k) == [cp |-> Replacement, len |-> k]
    IN  IF b0 < 128 THEN [cp |-> b0, len |-> 1]
        ELSE IF b0 \in 194..223
             THEN IF has(1) /\ IsCont(bs[i + 1])
                  THEN [cp |-> (b0 - 192) * 64 + c(1), len |-> 2]
                  ELSE bad(1)
        ELSE IF b0 \in 224..239
             THEN LET lo == IF b0 = 224 THEN 160 ELSE 128
                      hi == IF b0 = 237 THEN 159 ELSE 191
                  IN  IF ~(has(1) /\ bs[i + 1] \in lo..hi) THEN bad(1)
                      ELSE IF ~(has(2) /\ IsCont(bs[i + 2])) THEN bad(2)
                      ELSE [cp |-> (b0 - 224) * 4096 + c(1) * 64 + c(2), len |-> 3]
        ELSE IF b0 \in 240..244
             THEN LET lo == IF b0 = 240 THEN 144 ELSE 128
                      hi == IF b0 = 244 THEN 143 ELSE 191
                  IN  IF ~(has(1) /\ bs[i + 1] \in lo..hi) THEN bad(1)
                      ELSE IF ~(has(2) /\ IsCont(bs[i + 2])) THEN bad(2)
                      ELSE IF ~(has(3) /\ IsCont(bs[i + 3])) THEN bad(3)
                      ELSE [cp |-> (b0 - 240) * 262144 + c(1) * 4096 + c(2) * 64 + c(3),
                            len |-> 4]
        ELSE bad(1)

RECURSIVE Utf8From(_, _)
Utf8From(bs, i) ==
    IF i > Len(bs) THEN <<>>
    ELSE LET d == Utf8At(bs, i) IN <<d.cp>> \o Utf8From(bs, i + d.len)

Utf8Decode(bs) == Utf8From(bs, 1)

(***************************************************************************)
(* self.pattern (lines 31-34) and re.findall(self.pattern, text) (lines    *)
(* 83, 152).  The character classes are given for the code points the      *)
(* model draws text from: ASCII and the Devanagari block.                  *)
(***************************************************************************)
IsDevanagari(c) == c \in 2304..2431      \* [ऀ-ॿ]
IsBengali(c) == c \in 2432..2559         \* [ঀ-৿]
IsSpace(c) == c \in {9, 10, 11, 12, 13, 28, 29, 30, 31, 32}      \* \s
IsLetter(c) == c \in (65..90) \cup (97..122) \cup (2308..2361)   \* \p{L}
IsNumber(c) == c \in (48..57) \cup (2406..2415)                  \* \p{N}

\* Whether code point c is in the character class an alternative repeats.
InClass(cls, c) ==
    CASE cls = "devanagari" -> IsDevanagari(c)
      [] cls = "bengali" -> IsBengali(c)
      [] cls = "L" -> IsLetter(c)
      [] cls = "N" -> IsNumber(c)
      [] cls = "other" -> ~IsSpace(c) /\ ~IsLetter(c) /\ ~IsNumber(c)
      [] cls = "s" -> IsSpace(c)

\* Length of the longest run of code points of class cls at position i.
RECURSIVE RunLen(_, _, _)
RunLen(cls, text, i) ==
    IF i <= Len(text) /\ InClass(cls, text[i]) THEN 1 + RunLen(cls, text, i + 1) ELSE 0

\* " ?X+" at position i: the length matched, 0 when it does not match.
OptSpaceRun(cls, text, i) ==
    IF text[i] = 32 /\ RunLen(cls, text, i + 1) > 0
    THEN 1 + RunLen(cls, text, i + 1)
    ELSE RunLen(cls, text, i)

\* "\s+(?!\S)" at position i: the whole run at the end of the text, else
\* the run less its last code point.
TrailingSpace(text, i) ==
    LET n == RunLen("s", text, i)
    IN  IF i + n > Len(text) THEN n ELSE IF n >= 2 THEN n - 1 ELSE 0

\* The alternatives in order, the first that matches wins.
MatchLen(text, i) ==
    LET alts == << OptSpaceRun("devanagari", text, i),
                   OptSpaceRun("bengali", text, i),
                   OptSpaceRun("L", text, i),
                   OptSpaceRun("N", text, i),
                   OptSpaceRun("other", text, i),
                   TrailingSpace(text, i),
                   RunLen("s", text, i) >>
        hits == {k \in 1..Len(alts) : alts[k] > 0}
    IN  IF hits = {} THEN 0
        ELSE alts[CHOOSE k \in hits : \A j \in hits : k <= j]

RECURSIVE FindAllFrom(_, _)
FindAllFrom(text, i) ==
    IF i > Len(text) THEN <<>>
    ELSE LET n == MatchLen(text, i)
         IN  IF n = 0 THEN FindAllFrom(text, i + 1)
             ELSE <<SubSeq(text, i, i + n - 1)>> \o FindAllFrom(text, i + n)

findall(text) == FindAllFrom(text, 1)

(***************************************************************************)
(* Python dict operations on a sequence of [key, val] entries.             *)
(***************************************************************************)
Keys(d) == {d[k].key : k \in 1..Len(d)}

DictGet(d, key, default) ==
    IF key \in Keys(d)
    THEN d[CHOOSE k \in 1..Len(d) : d[k].key = key].val
    ELSE default

\* d[key] = val: a present key keeps its place, a new one goes last.
DictSet(d, key, val) ==
    IF key \in Keys(d)
    THEN [k \in 1..Len(d) |-> IF d[k].key = key THEN [key |-> key, val |-> val] ELSE d[k]]
    ELSE Append(d, [key |-> key, val |-> val])

\* max(d, key=f) / min(d, key=f), score[k] being f of the k-th key: the
\* first key reaching the extreme.
PyMax(d, score) ==
    d[CHOOSE k \in 1..Len(d) :
        /\ \A j \in 1..Len(d) : score[j] <= score[k]
        /\ \A j \in 1..(k - 1) : score[j] < score[k]].key

PyMin(d, score) ==
    d[CHOOSE k \in 1..Len(d) :
        /\ \A j \in 1..Len(d) : score[j] >= score[k]
        /\ \A j \in 1..(k - 1) : score[j] > score[k]].key

(***************************************************************************)
(* get_stats (lines 36-49)                                                 *)
(***************************************************************************)
RECURSIVE StatsFrom(_, _, _)
StatsFrom(ids, i, counts) ==
    IF i >= Len(ids) THEN counts
    ELSE LET pair == <<ids[i], ids[i + 1]>>
         IN  StatsFrom(ids, i + 1, DictSet(counts, pair, DictGet(counts, pair, 0) + 1))

get_stats(ids) == StatsFrom(ids, 1, <<>>)

(***************************************************************************)
(* merge (lines 51-72)                                                     *)
(***************************************************************************)
\* A match steps one position on, not two.
RECURSIVE MergeFromOverlapping(_, _, _, _)
MergeFromOverlapping(ids, pair, idx, i) ==
    IF i > Len(ids) THEN <<>>
    ELSE IF i < Len(ids) /\ ids[i] = pair[1] /\ ids[i + 1] = pair[2]
         THEN <<idx>> \o MergeFromOverlapping(ids, pair, idx, i + 1)
         ELSE <<ids[i]>> \o MergeFromOverlapping(ids, pair, idx, i + 1)

RECURSIVE MergeFrom(_, _, _, _)
MergeFrom(ids, pair, idx, i) ==
    IF i > Len(ids) THEN <<>>
    ELSE IF i < Len(ids) /\ ids[i] = pair[1] /\ ids[i + 1] = pair[2]
         THEN <<idx>> \o MergeFrom(ids, pair, idx, i + 2)
         ELSE <<ids[i]>> \o MergeFrom(ids, pair, idx, i + 1)

\* Only the first occurrence is replaced.
mergeFirstOnly(ids, pair, idx) ==
    LET at == {k \in 1..(Len(ids) - 1) : ids[k] = pair[1] /\ ids[k + 1] = pair[2]}
    IN  IF at = {} THEN ids
        ELSE LET k == CHOOSE k \in at : \A j \in at : k <= j
             IN  SubSeq(ids, 1, k - 1) \o <<idx>> \o SubSeq(ids, k + 2, Len(ids))

merge(ids, pair, idx) == MergeFrom(ids, pair, idx, 1)

(***************************************************************************)
(* Inputs the callers draw.                                                *)
(***************************************************************************)
\* "a", " ", newline and the Devanagari letter KA (three UTF-8 bytes)
Alphabet == {97, 32, 10, 2325}

\* "aaabdaaabac"
Scenario == <<97, 97, 97, 98, 100, 97, 97, 97, 98, 97, 99>>

\* Every corpus up to MaxCorpusLen code points, and the scenario's.
Corpora == SeqsUpTo(Alphabet, MaxCorpusLen) \cup {Scenario}

\* Corpora an instance is trained and trained again on: "", "aa", "a a",
\* " a a", "aaaa", KA KA, and the scenario's.
Samples ==
    { <<>>, <<97, 97>>, <<97, 32, 97>>, <<32, 97, 32, 97>>, <<97, 97, 97, 97>>,
      <<2325, 2325>>, Scenario }

Texts == SeqsUpTo(Alphabet, MaxTextLen)
VocabSizes == (BaseVocab - 1)..(BaseVocab + MaxMerges)
\* a continuation byte, two IDs merges may create, an ID never created
DecodeIds == {164, 256, 257, 99999}
DecodeInputs == SeqsUpTo(DecodeIds, MaxDecodeLen)

\* What merge() is given when called on its own.
MergeSymbols == {97, 98, 256}
MergeLists == SeqsUpTo(MergeSymbols, MaxIdsLen)
MergePairs == MergeSymbols \X MergeSymbols
MergeIds == {256, 257}

(***************************************************************************)
(* State: the instance's fields, the frame of the call in progress, and    *)
(* what the last call handed to its caller.                                *)
(***************************************************************************)
VARIABLES
    constructed,   \* whether HindiBPETokenizer(...) has returned an instance
    vocab_size,    \* self.vocab_size
    merges,        \* self.merges
    vocab,         \* self.vocab
    pc,            \* "idle", or the loop the call in progress is in
    trains,        \* train() calls that have returned
    text,          \* the text given to the call in progress or last made, if any
    ids,           \* train: ids; encode: ids
    t_merges,      \* train: merges
    t_i,           \* train: i
    t_pair,        \* train: pair, once set
    t_verbose,     \* train: verbose
    e_rest,        \* encode: the chunks of text_chunks still to come
    chunk_bytes,   \* encode: chunk_bytes
    chunk_ids,     \* encode: chunk_ids
    e_pair,        \* encode: pair, once set
    e_done,        \* encode: the lists given to ids.extend so far, per chunk
    op,            \* the call last made, None once the caller has moved on
    arg,           \* the argument given to __init__, decode or merge, if any
    result,        \* what the call returned, if anything
    error          \* the exception the call raised

self == <<constructed, vocab_size, merges, vocab>>
train_frame == <<t_merges, t_i, t_pair, t_verbose>>
encode_frame == <<e_rest, chunk_bytes, chunk_ids, e_pair, e_done>>
vars == <<constructed, vocab_size, merges, vocab, pc, trains, text, ids,
          t_merges, t_i, t_pair, t_verbose,
          e_rest, chunk_bytes, chunk_ids, e_pair, e_done,
          op, arg, result, error>>

NoTrainFrame ==
    /\ t_merges = <<>> /\ t_i = 0 /\ t_pair = Nothing /\ t_verbose = FALSE

NoEncodeFrame ==
    /\ e_rest = <<>> /\ chunk_bytes = <<>> /\ chunk_ids = <<>>
    /\ e_pair = Nothing /\ e_done = <<>>

Init ==
    /\ constructed = FALSE
    /\ vocab_size = 0
    /\ merges = <<>>
    /\ vocab = <<>>
    /\ pc = "idle"
    /\ trains = 0
    /\ text = Nothing
    /\ ids = <<>>
    /\ NoTrainFrame
    /\ NoEncodeFrame
    /\ op = None /\ arg = Nothing /\ result = Nothing /\ error = None

\* The caller is between calls and holds an instance.
Ready == constructed /\ pc = "idle" /\ op = None

(***************************************************************************)
(* __init__ (lines 16-34)                                                  *)
(***************************************************************************)
BaseTable == [idx \in 0..(BaseVocab - 1) |-> <<idx>>]

\* Off by one: 255 passes.
TooSmallBelow255(vs) == vs < BaseVocab - 1

TooSmall(vs) == vs < BaseVocab

Construct(vs) ==
    /\ ~constructed /\ pc = "idle" /\ op = None
    /\ op' = "__init__"
    /\ arg' = Some(vs)
    /\ IF TooSmall(vs)
       THEN /\ error' = "ValueError"
            /\ UNCHANGED self
       ELSE /\ error' = None
            /\ constructed' = TRUE
            /\ vocab_size' = vs
            /\ merges' = <<>>
            /\ vocab' = BaseTable
    /\ UNCHANGED <<pc, trains, text, ids, train_frame, encode_frame, result>>

(***************************************************************************)
(* train (lines 74-139)                                                    *)
(***************************************************************************)
\* lines 83-95: the chunks' bytes, flattened
all_tokens(t) ==
    LET text_chunks == findall(t)
    IN  Flatten([k \in 1..Len(text_chunks) |-> Utf8Encode(text_chunks[k])])

\* Ties go to the pair met last.
MostFrequentLast(stats) ==
    stats[CHOOSE k \in 1..Len(stats) :
            /\ \A j \in 1..Len(stats) : stats[j].val <= stats[k].val
            /\ \A j \in (k + 1)..Len(stats) : stats[j].val < stats[k].val].key

\* line 117: max(stats, key=stats.get)
MostFrequent(stats) == PyMax(stats, [k \in 1..Len(stats) |-> stats[k].val])

\* line 118
NewId(i) == BaseVocab + i

\* The two expansions joined the wrong way round.
ExpansionSwapped(v, pair) == v[pair[2]] \o v[pair[1]]

\* line 128
Expansion(v, pair) == v[pair[1]] \o v[pair[2]]

\* lines 82-107
TrainStart(t, verbose) ==
    /\ Ready /\ trains < MaxTrains
    /\ op' = "train"
    /\ text' = Some(t)
    /\ t_verbose' = verbose
    /\ ids' = all_tokens(t)
    /\ t_merges' = <<>>
    /\ t_i' = 0
    /\ t_pair' = Nothing
    /\ pc' = "train"
    /\ UNCHANGED <<self, trains, encode_frame, arg, result, error>>

\* lines 108-128: one iteration that merges
TrainIter ==
    /\ pc = "train"
    /\ t_i < vocab_size - BaseVocab
    /\ get_stats(ids) # <<>>
    /\ LET stats == get_stats(ids)
           pair == MostFrequent(stats)
           idx == NewId(t_i)
       IN  /\ ids' = merge(ids, pair, idx)
           /\ t_merges' = DictSet(t_merges, pair, idx)
           /\ vocab' = (idx :> Expansion(vocab, pair)) @@ vocab
           /\ t_pair' = pair
    /\ t_i' = t_i + 1
    /\ UNCHANGED <<constructed, vocab_size, merges, pc, trains, text, t_verbose,
                   encode_frame, op, arg, result, error>>

\* lines 108-114 leaving the loop, then lines 130-139
TrainEnd ==
    /\ pc = "train"
    /\ \/ t_i >= vocab_size - BaseVocab
       \/ get_stats(ids) = <<>>
    /\ merges' = t_merges
    /\ error' = IF t_verbose /\ Len(ids) = 0 THEN "ZeroDivisionError" ELSE None
    /\ trains' = trains + 1
    /\ pc' = "idle"
    /\ ids' = <<>>
    /\ t_merges' = <<>> /\ t_i' = 0 /\ t_pair' = Nothing /\ t_verbose' = FALSE
    /\ UNCHANGED <<constructed, vocab_size, vocab, text, encode_frame, op, arg, result>>

(***************************************************************************)
(* encode (lines 141-171)                                                  *)
(***************************************************************************)
\* line 163: min(stats, key=lambda p: self.merges.get(p, float("inf")))
Rank(m, p) == DictGet(m, p, Inf)

\* max where min was meant.
HighestRank(m, stats) == PyMax(stats, [k \in 1..Len(stats) |-> Rank(m, stats[k].key)])

LowestRank(m, stats) == PyMin(stats, [k \in 1..Len(stats) |-> Rank(m, stats[k].key)])

\* lines 161-165: whether the while loop runs its body once more
Mergeable(m, cids) ==
    /\ Len(cids) >= 2
    /\ LowestRank(m, get_stats(cids)) \in Keys(m)

\* lines 162-167: the body
MergeStep(m, cids) ==
    LET pair == LowestRank(m, get_stats(cids))
    IN  merge(cids, pair, DictGet(m, pair, Inf))

\* lines 161-167: the whole loop on one chunk
RECURSIVE ApplyMerges(_, _)
ApplyMerges(m, cids) ==
    IF Mergeable(m, cids) THEN ApplyMerges(m, MergeStep(m, cids)) ELSE cids

\* lines 152-171 as one call
encode(m, t) ==
    LET text_chunks == findall(t)
    IN  Flatten([k \in 1..Len(text_chunks) |->
                    ApplyMerges(m, Utf8Encode(text_chunks[k]))])

\* lines 152-155
EncodeStart(t) ==
    /\ Ready
    /\ op' = "encode"
    /\ text' = Some(t)
    /\ e_rest' = findall(t)
    /\ ids' = <<>>
    /\ pc' = "encode_for"
    /\ UNCHANGED <<self, trains, train_frame, chunk_bytes, chunk_ids, e_pair, e_done,
                   arg, result, error>>

\* lines 156-158: the next chunk
EncodeChunk ==
    /\ pc = "encode_for" /\ e_rest # <<>>
    /\ chunk_bytes' = Utf8Encode(Head(e_rest))
    /\ chunk_ids' = Utf8Encode(Head(e_rest))
    /\ e_rest' = Tail(e_rest)
    /\ e_pair' = Nothing
    /\ pc' = "encode_while"
    /\ UNCHANGED <<self, trains, text, ids, train_frame, e_done, op, arg, result, error>>

\* ids.extend(chunk_ids) indented into the while loop as well.
EncodeMergeExtending ==
    /\ pc = "encode_while"
    /\ Mergeable(merges, chunk_ids)
    /\ e_pair' = LowestRank(merges, get_stats(chunk_ids))
    /\ chunk_ids' = MergeStep(merges, chunk_ids)
    /\ ids' = ids \o MergeStep(merges, chunk_ids)
    /\ UNCHANGED <<self, pc, trains, text, train_frame, e_rest, chunk_bytes,
                   e_done, op, arg, result, error>>

\* lines 161-167: one pass of the while loop that merges
EncodeMerge ==
    /\ pc = "encode_while"
    /\ Mergeable(merges, chunk_ids)
    /\ e_pair' = LowestRank(merges, get_stats(chunk_ids))
    /\ chunk_ids' = MergeStep(merges, chunk_ids)
    /\ UNCHANGED <<self, pc, trains, text, ids, train_frame, e_rest, chunk_bytes,
                   e_done, op, arg, result, error>>

\* lines 161-165 leaving the while loop, then line 169
EncodeExtend ==
    /\ pc = "encode_while"
    /\ ~Mergeable(merges, chunk_ids)
    /\ ids' = ids \o chunk_ids
    /\ e_done' = Append(e_done, [bytes |-> chunk_bytes, out |-> chunk_ids])
    /\ pc' = "encode_for"
    /\ UNCHANGED <<self, trains, text, train_frame, e_rest, chunk_bytes, chunk_ids,
                   e_pair, op, arg, result, error>>

\* line 171
EncodeReturn ==
    /\ pc = "encode_for" /\ e_rest = <<>>
    /\ result' = Some(ids)
    /\ ids' = <<>>
    /\ pc' = "idle"
    /\ chunk_bytes' = <<>> /\ chunk_ids' = <<>> /\ e_pair' = Nothing
    /\ UNCHANGED <<self, trains, text, train_frame, e_rest, e_done, op, arg, error>>

(***************************************************************************)
(* decode (lines 173-185)                                                  *)
(***************************************************************************)
Known(v, is) == \A k \in 1..Len(is) : is[k] \in DOMAIN v

DecodeText(v, is) == Utf8Decode(Flatten([k \in 1..Len(is) |-> v[is[k]]]))

\* self.vocab.get(idx, b"") where self.vocab[idx] was meant.
DecodeLenient(is) ==
    /\ op' = "decode"
    /\ arg' = Some(is)
    /\ result' = Some(Utf8Decode(Flatten([k \in 1..Len(is) |->
                     IF is[k] \in DOMAIN vocab THEN vocab[is[k]] ELSE <<>>])))
    /\ error' = None
    /\ UNCHANGED <<self, pc, trains, ids, train_frame, encode_frame>>

\* self.vocab a defaultdict(bytes): looking a missing ID up inserts it.
DecodeInserting(is) ==
    /\ op' = "decode"
    /\ arg' = Some(is)
    /\ vocab' = [idx \in DOMAIN vocab \cup Range(is) |->
                    IF idx \in DOMAIN vocab THEN vocab[idx] ELSE <<>>]
    /\ result' = Some(DecodeText(vocab', is))
    /\ error' = None
    /\ UNCHANGED <<constructed, vocab_size, merges, pc, trains, ids, train_frame,
                   encode_frame>>

Decode(is) ==
    /\ op' = "decode"
    /\ arg' = Some(is)
    /\ IF Known(vocab, is)
       THEN /\ result' = Some(DecodeText(vocab, is))
            /\ error' = None
       ELSE /\ result' = Nothing
            /\ error' = "KeyError"
    /\ UNCHANGED <<self, pc, trains, ids, train_frame, encode_frame>>

\* tokenizer.decode(ids) on a list of the caller's
DecodeIdsCall(is) ==
    /\ Ready
    /\ text' = Nothing
    /\ Decode(is)

\* train_bpe_simple.py lines 58-59: decode what encode(text) just returned
DecodeEncoded ==
    /\ constructed /\ pc = "idle" /\ op = "encode"
    /\ UNCHANGED text
    /\ Decode(result[1])

(***************************************************************************)
(* get_compression_stats (lines 199-220)                                   *)
(***************************************************************************)
Ratio(original_bytes, compressed_tokens) ==
    IF compressed_tokens > 0
    THEN [num |-> original_bytes, den |-> compressed_tokens]
    ELSE 0

GetCompressionStats(t) ==
    /\ Ready
    /\ op' = "get_compression_stats"
    /\ text' = Some(t)
    /\ LET original_bytes == Len(Utf8Encode(t))
           compressed_tokens == Len(encode(merges, t))
       IN  result' = Some([original_chars |-> Len(t),
                           original_bytes |-> original_bytes,
                           compressed_tokens |-> compressed_tokens,
                           compression_ratio |-> Ratio(original_bytes, compressed_tokens),
                           vocab_size |-> Cardinality(DOMAIN vocab)])
    /\ UNCHANGED <<self, pc, trains, ids, train_frame, encode_frame, arg, error>>

(***************************************************************************)
(* save (lines 187-197): the record written                                *)
(***************************************************************************)
MergeKey(k) == ToString(k[1]) \o "," \o ToString(k[2])

SaveData ==
    [vocab_size |-> vocab_size,
     merges |-> [k \in 1..Len(merges) |->
                    [key |-> MergeKey(merges[k].key), val |-> merges[k].val]],
     vocab |-> vocab]

Save ==
    /\ Ready
    /\ op' = "save"
    /\ result' = Some(SaveData)
    /\ UNCHANGED <<self, pc, trains, text, ids, train_frame, encode_frame, arg, error>>

(***************************************************************************)
(* The caller drops what the call handed it and goes on.                   *)
(***************************************************************************)
Return ==
    /\ pc = "idle" /\ op # None
    /\ op' = None /\ arg' = Nothing /\ result' = Nothing /\ error' = None
    /\ text' = Nothing
    /\ e_done' = <<>>
    /\ UNCHANGED <<self, pc, trains, ids, train_frame, e_rest, chunk_bytes,
                   chunk_ids, e_pair>>

\* merge() called on its own
MergeCall(is, pair, idx) ==
    /\ pc = "idle" /\ op = None
    /\ op' = "merge"
    /\ arg' = Some([ids |-> is, pair |-> pair, idx |-> idx])
    /\ result' = Some(merge(is, pair, idx))
    /\ UNCHANGED <<self, pc, trains, text, ids, train_frame, encode_frame, error>>

(***************************************************************************)
(* Spec: one instance from its construction on, trained and trained again  *)
(* on the sample corpora and used in between.                              *)
(***************************************************************************)
Next ==
    \/ \E vs \in VocabSizes : Construct(vs)
    \/ \E t \in Samples, verbose \in BOOLEAN : TrainStart(t, verbose)
    \/ TrainIter
    \/ TrainEnd
    \/ \E t \in Texts : EncodeStart(t)
    \/ EncodeChunk
    \/ EncodeMerge
    \/ EncodeExtend
    \/ EncodeReturn
    \/ \E is \in DecodeInputs : DecodeIdsCall(is)
    \/ DecodeEncoded
    \/ \E t \in Texts : GetCompressionStats(t)
    \/ Save
    \/ Return

Spec == Init /\ [][Next]_vars

(***************************************************************************)
(* SpecFresh: an instance just constructed with any accepted size, trained *)
(* at most once, on any corpus of Corpora, and used before or after.       *)
(***************************************************************************)
InitFresh ==
    /\ constructed = TRUE
    /\ vocab_size \in {vs \in VocabSizes : ~TooSmall(vs)}
    /\ merges = <<>>
    /\ vocab = BaseTable
    /\ pc = "idle"
    /\ trains = 0
    /\ text = Nothing
    /\ ids = <<>>
    /\ NoTrainFrame
    /\ NoEncodeFrame
    /\ op = None /\ arg = Nothing /\ result = Nothing /\ error = None

FirstTrain(t, verbose) == trains = 0 /\ TrainStart(t, verbose)

NextFresh ==
    \/ \E t \in Corpora, verbose \in BOOLEAN : FirstTrain(t, verbose)
    \/ TrainIter
    \/ TrainEnd
    \/ \E t \in Texts : EncodeStart(t)
    \/ EncodeChunk
    \/ EncodeMerge
    \/ EncodeExtend
    \/ EncodeReturn
    \/ DecodeEncoded
    \/ \E t \in Texts : GetCompressionStats(t)
    \/ Return

SpecFresh == InitFresh /\ [][NextFresh]_vars

(***************************************************************************)
(* SpecMerge: merge() on every list, pair and replacement of the bounds.   *)
(***************************************************************************)
NextMerge ==
    \/ \E is \in MergeLists, pair \in MergePairs, idx \in MergeIds :
          MergeCall(is, pair, idx)
    \/ Return

SpecMerge == InitFresh /\ [][NextMerge]_vars

(***************************************************************************)
(* Vocabulary of the properties, stated on the sequences themselves.       *)
(***************************************************************************)
AdjPairs(s) == {<<s[k], s[k + 1]>> : k \in 1..(Len(s) - 1)}

Occurrences(s, p) == Cardinality({k \in 1..(Len(s) - 1) : <<s[k], s[k + 1]>> = p})

FirstAt(s, p) ==
    CHOOSE k \in 1..(Len(s) - 1) :
        /\ <<s[k], s[k + 1]>> = p
        /\ \A j \in 1..(k - 1) : <<s[j], s[j + 1]>> # p

Count(s, x) == Cardinality({k \in 1..Len(s) : s[k] = x})

MergeKeys(m) == {m[k].key : k \in 1..Len(m)}

IdOf(m, p) == m[CHOOSE k \in 1..Len(m) : m[k].key = p].val

\* The bytes a token list stands for.
Bytes(v, is) == Flatten([k \in 1..Len(is) |-> v[is[k]]])

\* The positions where one left-to-right scan replaces: a position holding
\* the pair, unless the scan replaced at the position before it.
ScanStarts(s, p) ==
    LET f[k \in 0..Len(s)] ==
            IF k = 0 THEN FALSE
            ELSE k < Len(s) /\ s[k] = p[1] /\ s[k + 1] = p[2] /\ ~f[k - 1]
    IN  {k \in 1..Len(s) : f[k]}

\* What the scan leaves: r at each start, nothing at the position after a
\* start, the input elsewhere.
ScanResult(s, p, r) ==
    LET starts == ScanStarts(s, p)
    IN  Flatten([k \in 1..Len(s) |->
                    IF k \in starts THEN <<r>>
                    ELSE IF (k - 1) \in starts THEN <<>>
                    ELSE <<s[k]>>])

(***************************************************************************)
(* C1.  Round trip: whatever size the instance was constructed with and    *)
(* whether or not it has been trained, decoding what encode(T) returned    *)
(* raises nothing and gives T back.                                        *)
(***************************************************************************)
C1_RoundTrip ==
    (op = "decode" /\ text # Nothing) =>
        /\ error = None
        /\ result = text

\* A trained instance has decoded, to the text, an encoding shorter than
\* the text's bytes.
C1_Witness ==
    /\ op = "decode" /\ text # Nothing
    /\ trains = 1 /\ merges # <<>>
    /\ Len(arg[1]) < Len(Utf8Encode(text[1]))
    /\ 2325 \in Range(text[1])
    /\ result = text

(***************************************************************************)
(* C2.  decode of a list holding an ID with no vocabulary entry, at any    *)
(* position, raises KeyError, returns no text, and leaves the vocabulary   *)
(* and the merge table as they were.                                       *)
(***************************************************************************)
C2_DecodeUnknownRaises ==
    [][ (op' = "decode" /\ \E k \in 1..Len(arg'[1]) : arg'[1][k] \notin DOMAIN vocab) =>
            /\ error' = "KeyError"
            /\ result' = Nothing
            /\ vocab' = vocab
            /\ merges' = merges ]_vars

\* decode([99999]) on an instance never trained has raised.
C2_Witness ==
    /\ op = "decode" /\ arg = Some(<<99999>>)
    /\ trains = 0 /\ vocab = BaseTable
    /\ error = "KeyError" /\ result = Nothing

(***************************************************************************)
(* C3.  Merge rank monotonicity: the k-th entry of the merge table,        *)
(* counted from 0, maps to 256 + k, in train's own table at every          *)
(* iteration and in the instance's afterwards; no pair is entered twice,   *)
(* so the table has one entry per iteration run.                           *)
(***************************************************************************)
RankedFrom256(m) ==
    /\ \A k \in 1..Len(m) : m[k].val = 256 + (k - 1)
    /\ \A j, k \in 1..Len(m) : j # k => m[j].key # m[k].key

\* C3: entry k of the merge table maps to 256 + k, and no pair is entered
\* twice.
C3_MergeRankMonotone ==
    /\ RankedFrom256(merges)
    /\ pc = "train" => (RankedFrom256(t_merges) /\ Len(t_merges) = t_i)

\* A training that ran three iterations has returned.
C3_Witness ==
    /\ pc = "idle" /\ trains = 1
    /\ Len(merges) = 3
    /\ merges[3].val = 258

C5_NoExpansion ==
    /\ (op = "encode" /\ pc = "idle") => Len(result[1]) <= Len(Utf8Encode(text[1]))
    /\ op = "get_compression_stats" =>
          /\ result[1].original_bytes = Len(Utf8Encode(text[1]))
          /\ result[1].compressed_tokens <= result[1].original_bytes

\* encode has returned fewer IDs than the text has bytes.
C5_Witness ==
    /\ op = "encode" /\ pc = "idle"
    /\ result[1] # <<>>
    /\ Len(result[1]) < Len(Utf8Encode(text[1]))

(***************************************************************************)
(* C6.  HindiBPETokenizer(vocab_size) raises ValueError and gives no       *)
(* instance when vocab_size < 256, before any corpus is seen; every other  *)
(* size gives an instance whose vocabulary is the 256 single bytes and     *)
(* whose merge table is empty.                                             *)
(***************************************************************************)
C6_ConstructionGuard ==
    op = "__init__" =>
        IF arg[1] < 256
        THEN /\ error = "ValueError"
             /\ ~constructed
             /\ trains = 0 /\ pc = "idle"
        ELSE /\ error = None
             /\ constructed
             /\ vocab_size = arg[1]
             /\ DOMAIN vocab = 0..255
             /\ \A b \in 0..255 : vocab[b] = <<b>>
             /\ merges = <<>>

\* HindiBPETokenizer(255) has raised.
C6_Witness ==
    /\ op = "__init__" /\ arg = Some(255)
    /\ error = "ValueError" /\ ~constructed

(***************************************************************************)
(* C7.  Iteration i of training merges a pair with the most occurrences    *)
(* in the current sequence, among those the one met first from the left,   *)
(* into ID 256 + i.  On "aaabdaaabac" with size 259 the first merge is     *)
(* (97,97) -> 256, leaving [256,97,98,100,256,97,98,97,99], and the second *)
(* is (256,97), which ties with (97,98).                                   *)
(***************************************************************************)
C7_Iteration ==
    (pc = "train" /\ t_i' = t_i + 1) =>
        LET p == t_pair'
        IN  /\ p \in AdjPairs(ids)
            /\ \A q \in AdjPairs(ids) :
                  /\ Occurrences(ids, q) <= Occurrences(ids, p)
                  /\ Occurrences(ids, q) = Occurrences(ids, p) =>
                        FirstAt(ids, p) <= FirstAt(ids, q)
            /\ t_merges' = Append(t_merges, [key |-> p, val |-> 256 + t_i])
            /\ ids' = ScanResult(ids, p, 256 + t_i)

C7_Scenario ==
    (pc = "train" /\ text = Some(Scenario) /\ vocab_size = 259) =>
        /\ t_i = 1 =>
              /\ t_pair = <<97, 97>>
              /\ t_merges = <<[key |-> <<97, 97>>, val |-> 256]>>
              /\ ids = <<256, 97, 98, 100, 256, 97, 98, 97, 99>>
              /\ Occurrences(ids, <<256, 97>>) = Occurrences(ids, <<97, 98>>)
        /\ t_i = 2 =>
              /\ t_pair = <<256, 97>>
              /\ t_merges[2] = [key |-> <<256, 97>>, val |-> 257]

\* C7: every iteration merges the most frequent pair, the leftmost of
\* those tied, into 256 + i, and the scenario runs as stated.
C7_MostFrequentLeftmost == [][C7_Iteration]_vars /\ []C7_Scenario

\* The scenario's second merge has been made.
C7_Witness ==
    /\ pc = "train" /\ text = Some(Scenario) /\ vocab_size = 259
    /\ t_i = 2 /\ t_pair = <<256, 97>>

(***************************************************************************)
(* C8.  encode works chunk by chunk and ends.  Each pass of its loop       *)
(* merges the pair of lowest rank among those present in the chunk's       *)
(* current sequence and shortens it; the loop is left exactly when the     *)
(* sequence is shorter than 2 or holds no pair of the merge table.  So in  *)
(* what encode returns each chunk's tokens stand for that chunk's bytes    *)
(* and hold no adjacent pair of the merge table.                           *)
(***************************************************************************)
\* A bound on the steps the call in progress can still take: a natural
\* number that every step lowers, so the call returns.
EncodeMeasure ==
    CASE pc = "encode_for" -> 3 * Len(Flatten(e_rest)) + 2 * Len(e_rest) + 1
      [] pc = "encode_while" -> 3 * Len(Flatten(e_rest)) + 2 * Len(e_rest) + 2 + Len(chunk_ids)
      [] OTHER -> 0

C8_Step ==
    /\ pc \in {"encode_for", "encode_while"} => EncodeMeasure' < EncodeMeasure
    /\ (pc = "encode_while" /\ pc' = "encode_while") =>
          LET p == e_pair'
              present == AdjPairs(chunk_ids) \cap MergeKeys(merges)
          IN  /\ p \in present
              /\ \A q \in present : IdOf(merges, p) <= IdOf(merges, q)
              /\ chunk_ids' = ScanResult(chunk_ids, p, IdOf(merges, p))
              /\ Len(chunk_ids') < Len(chunk_ids)
    /\ (pc = "encode_while" /\ pc' = "encode_for") =>
          /\ Len(chunk_ids) < 2 \/ AdjPairs(chunk_ids) \cap MergeKeys(merges) = {}
          /\ ids' = ids \o chunk_ids

C8_Returned ==
    (op = "encode" /\ pc = "idle") =>
        LET chunks == findall(text[1])
        IN  /\ Len(e_done) = Len(chunks)
            /\ result[1] = Flatten([k \in 1..Len(e_done) |-> e_done[k].out])
            /\ \A k \in 1..Len(e_done) :
                  /\ e_done[k].bytes = Utf8Encode(chunks[k])
                  /\ Bytes(vocab, e_done[k].out) = e_done[k].bytes
                  /\ AdjPairs(e_done[k].out) \cap MergeKeys(merges) = {}

\* C8: each step of the call lowers EncodeMeasure, each pass merges the
\* lowest-ranked pair present, and each chunk is encoded on its own.
C8_EncodePerChunk == [][C8_Step]_vars /\ []C8_Returned

\* encode has returned for a text of two chunks, having merged inside one
\* and left unmerged a pair of the merge table that straddles the two.
C8_Witness ==
    /\ op = "encode" /\ pc = "idle"
    /\ Len(e_done) = 2
    /\ <<e_done[1].out[Len(e_done[1].out)], e_done[2].out[1]>> \in MergeKeys(merges)
    /\ \E k \in 1..2 : Len(e_done[k].out) < Len(e_done[k].bytes)

(***************************************************************************)
(* C9.  merge(ids, (a, b), r) is one left-to-right scan that puts r for an *)
(* adjacent (a, b) and steps two positions on, for every list and pair,    *)
(* a = b included: a a a with (a, a) gives r a, the result is shorter by   *)
(* the number of replacements, and when r is not in the input the result   *)
(* holds no adjacent (a, b).                                               *)
(***************************************************************************)
C9_MergeScan ==
    op = "merge" =>
        LET s == arg[1].ids
            p == arg[1].pair
            r == arg[1].idx
            out == result[1]
        IN  /\ out = ScanResult(s, p, r)
            /\ Len(out) = Len(s) - Cardinality(ScanStarts(s, p))
            /\ (s = <<97, 97, 97>> /\ p = <<97, 97>>) => out = <<r, 97>>
            /\ Count(s, r) = 0 =>
                  /\ p \notin AdjPairs(out)
                  /\ Count(out, r) = Cardinality(ScanStarts(s, p))

\* merge([97, 97, 97], (97, 97), 256) has returned [256, 97].
C9_Witness ==
    /\ op = "merge"
    /\ arg = Some([ids |-> <<97, 97, 97>>, pair |-> <<97, 97>>, idx |-> 256])
    /\ result = Some(<<256, 97>>)

(***************************************************************************)
(* C10.  Whenever no call is in progress on an instance, the IDs of its    *)
(* vocabulary are 0..255 and the IDs of its merge table, so that           *)
(* len(vocab) = 256 + len(merges).                                         *)
(***************************************************************************)
C10_VocabIsBasePlusMerges ==
    (constructed /\ pc = "idle") =>
        /\ DOMAIN vocab = (0..255) \cup {merges[k].val : k \in 1..Len(merges)}
        /\ Cardinality(DOMAIN vocab) = 256 + Len(merges)

=============================================================================
